---- MODULE Spec2Model ----
(***************************************************************************)
(* Model of the Quad Terminal extension host: QuadTerminalViewProvider     *)
(* (provider/index.ts), TabManager (provider/tab-manager.ts),              *)
(* TerminalManager (provider/terminal-manager.ts) and WebviewMessenger     *)
(* (provider/webview-messenger.ts), together with the node-pty process     *)
(* layer and the JavaScript timer queue they run on.                       *)
(*                                                                         *)
(* Every handler runs to completion (single-threaded event loop), so each  *)
(* handler is one action.  Handlers are written as operators from a state  *)
(* record to a state record, so that a handler that calls another is the   *)
(* composition of the two operators.                                       *)
(***************************************************************************)
EXTENDS Integers, Sequences, FiniteSets, TLC

(***************************************************************************)
(* Program constants.                                                      *)
(***************************************************************************)
TERMINAL_COUNT == 4
SHELL_INIT_DELAY_MS == 500
IDLE_TIMEOUT_MS == 2000
RESTART_DELAY_MS == 100
VALID_TERMINAL_IDS == {0, 1, 2, 3}

(***************************************************************************)
(* Bounds of the model.                                                    *)
(***************************************************************************)
MaxPid == 2          \* processes spawned in one behaviour
MaxPidSlots == 5     \* processes spawned in one behaviour of SpecSlots
MaxTabId == 2        \* largest tab id createTab allocates under Spec
MaxTabIdTabs == 3    \* largest tab id createTab allocates under SpecTabs
MaxPrompts == 1      \* confirmation prompts pending at once per tab id
MaxPromptsTwice == 2 \* the same, under SpecPrompts
MaxTimers == 3       \* setTimeout callbacks pending at once
MaxDialogs == 1      \* showOpenDialog calls pending at once
MaxQueue == 1        \* add-terminal clicks and webview messages under way at once

Pids == 1..(IF MaxPidSlots > MaxPid THEN MaxPidSlots ELSE MaxPid)
TabIds == 1..(IF MaxTabIdTabs > MaxTabId THEN MaxTabIdTabs ELSE MaxTabId)
\* tab ids an inbound message may carry: 0 stands for an absent (falsy) id
TabIdInputs == 0..MaxTabId
\* the keys of the maps of a TabState an inbound message can name: the valid
\* ids and TERMINAL_COUNT, the nearest id that is not valid
TerminalIds == 0..TERMINAL_COUNT
\* terminal ids an inbound message carries under Spec: the first and the last
\* valid id, and the id that is not valid
TerminalIdInputs == {0, TERMINAL_COUNT - 1, TERMINAL_COUNT}
Paths == {"", "/a"}
Resumes == {"", "s1"}
Chunks == {"x", "y"}
\* the text of a drop, one line: nothing, a path, a path with a space in it
DropTexts == {"", "/a", "/a b"}

VARIABLES
  view,          \* provider._view is set (resolveWebviewView has run)
  tabs,          \* keys of TabManager.tabs, in insertion order
  tabState,      \* the TabState stored under each key of TabManager.tabs
  activeTabId,   \* TabManager._activeTabId
  nextTabId,     \* TabManager._nextTabId
  procs,         \* node-pty processes, by pid
  timers,        \* pending setTimeout callbacks
  prompts,       \* closeTab calls suspended at showWarningMessage, per tab id
  clock,         \* TRUE when the behaviour is timed and observed
  busyAge,       \* ms since the last status=busy of a (tab, slot), saturating
  seen,          \* what an observer of the events has seen so far
  dialogs,       \* pickFilesForTerminal calls suspended at showOpenDialog
  webview,       \* the state of the webview script (main.js), when it runs
  toHost,        \* messages the webview posted, not yet received by the host
  toWebview      \* messages the host posted, not yet received by the webview

vars == <<view, tabs, tabState, activeTabId, nextTabId, procs, timers, prompts,
          clock, busyAge, seen, dialogs, webview, toHost, toWebview>>

Min(a, b) == IF a < b THEN a ELSE b
\* the observer counts up to MaxSeen
MaxSeen == 2
Max(a, b) == IF a > b THEN a ELSE b
LeastOf(S) == CHOOSE k \in S : \A j \in S : k <= j

(***************************************************************************)
(* TabManager.createTabState.  A map is a function over the keys a message *)
(* can carry; 0, "none" and "unset" stand for "no entry".  The two timer   *)
(* maps, idleTimers and claudeCommandTimeouts, are read off the timer      *)
(* queue: an entry is a pending timer marked inMap (a handle to a timer    *)
(* that has fired or was cleared behaves as no entry: clearTimeout on it   *)
(* does nothing).                                                          *)
(***************************************************************************)
createTabState ==
  [ ptyProcesses     |-> [i \in TerminalIds |-> 0],
    terminalProjects |-> [i \in TerminalIds |-> "none"],
    terminalBusy     |-> [i \in TerminalIds |-> "unset"] ]

\* a process: its state, and the (tabId, terminalId) its callbacks close over
NoProc == [status |-> "unborn", tabId |-> 0, terminalId |-> -1]

(***************************************************************************)
(* WebviewMessenger                                                        *)
(***************************************************************************)
Msg(command, tabId, terminalId, data, newActiveTabId) ==
  [command |-> command, tabId |-> tabId, terminalId |-> terminalId,
   data |-> data, newActiveTabId |-> newActiveTabId]

\* the messages whose listener case changes webview.tabState, activeTabId,
\* the project select or the add-terminal button; the cases of the others
\* (output, clear, error, status, restarting, terminalConfig) only draw
WebviewCommands ==
  {"projects", "killed", "refresh", "tabCreated", "tabClosed", "tabSwitched"}

\* WebviewMessenger.send: posts only when the view exists; a posted message
\* of WebviewCommands is in flight to the webview script when the script runs
send(s, message) ==
  IF s.view
  THEN [s EXCEPT !.sent = Append(@, message),
                 !.toWebview = IF s.webview.on /\ message.command \in WebviewCommands
                               THEN Append(@, message) ELSE @]
  ELSE s

\* sendOutput that tags the chunk with the active tab
sendOutputToActive(s, tabId, terminalId, data) ==
  send(s, Msg("output", s.activeTabId, terminalId, data, 0))

sendOutput(s, tabId, terminalId, data) ==
  send(s, Msg("output", tabId, terminalId, data, 0))
sendClear(s, tabId, terminalId) ==
  send(s, Msg("clear", tabId, terminalId, "", 0))
sendError(s, tabId, terminalId) ==
  send(s, Msg("error", tabId, terminalId, "Failed to start terminal", 0))
\* sendKilled; the observer counts the killed events of the slot
sendKilled(s, tabId, terminalId) ==
  LET s1 == send(s, Msg("killed", tabId, terminalId, "", 0))
  IN  IF s.view /\ s.clock
      THEN [s1 EXCEPT !.seen.killed[tabId][terminalId] = Min(MaxSeen, @ + 1)]
      ELSE s1
sendRestarting(s, tabId, terminalId) ==
  send(s, Msg("restarting", tabId, terminalId, "", 0))
sendTabCreated(s, tabId) == send(s, Msg("tabCreated", tabId, -1, "", 0))
sendTabSwitched(s, tabId) == send(s, Msg("tabSwitched", tabId, -1, "", 0))
sendTabClosed(s, tabId, newActiveTabId) ==
  send(s, Msg("tabClosed", tabId, -1, "", newActiveTabId))
sendRefresh(s) == send(s, Msg("refresh", 0, -1, "", 0))
sendDropResolved(s, tabId, terminalId, paths) ==
  send(s, Msg("dropResolved", tabId, terminalId, paths, 0))
sendProjects(s) == send(s, Msg("projects", 0, -1, "", 0))
sendTerminalConfig(s) == send(s, Msg("terminalConfig", 0, -1, "", 0))

\* sendStatus; the observer restarts its clock at a busy event and notes an
\* idle event that follows the last busy event by less than IDLE_TIMEOUT_MS
sendStatus(s, tabId, terminalId, status) ==
  LET s1 == send(s, Msg("status", tabId, terminalId, status, 0))
  IN  IF s.view /\ s.clock
      THEN [s1 EXCEPT !.busyAge[tabId][terminalId] =
                         IF status = "busy" THEN 0 ELSE IDLE_TIMEOUT_MS,
                      !.seen.earlyIdle[tabId][terminalId] =
                         @ \/ (status = "idle" /\
                               s.busyAge[tabId][terminalId] < IDLE_TIMEOUT_MS)]
      ELSE s1

(***************************************************************************)
(* Timer queue (setTimeout / clearTimeout)                                 *)
(*                                                                         *)
(* A timer is its closure: kind, the ms left of its delay, the tabId and   *)
(* terminalId it closes over, pid (bootstrap: the ptyProcess it writes to; *)
(* idle: the process whose output scheduled it), arg (bootstrap:           *)
(* sessionId; restart: projectPath), inMap (its handle is the entry of the *)
(* timer map of the TabState now stored under tabId), attached (bootstrap: *)
(* the tabState it closes over is still the one stored under tabId) and    *)
(* has (once detached: whether that tabState has a ptyProcesses entry for  *)
(* terminalId; nothing changes the maps of a TabState that left the tab    *)
(* map).  Equal closures are told apart by copy.                           *)
(***************************************************************************)
Timer(kind, left, tabId, terminalId, pid, arg) ==
  [kind |-> kind, left |-> left, tabId |-> tabId, terminalId |-> terminalId,
   pid |-> pid, arg |-> arg, inMap |-> TRUE, attached |-> TRUE, has |-> FALSE,
   copy |-> 1]

\* the queue with the copies of equal closures numbered 1..n
Canon(T) ==
  LET Base(t) == [t EXCEPT !.copy = 1]
      Count(b) == Cardinality({u \in T : Base(u) = b})
  IN  UNION {{[b EXCEPT !.copy = c] : c \in 1..Count(b)} : b \in {Base(t) : t \in T}}

\* the entry of the kind's timer map of the tab, as a set of at most one timer
MapEntry(s, kind, tabId, terminalId) ==
  {t \in s.timers : /\ t.kind = kind /\ t.tabId = tabId
                    /\ t.terminalId = terminalId /\ t.inMap /\ t.attached}

\* Map.delete(terminalId) on a timer map: the handle is dropped, not cleared
mapDelete(s, kind, tabId, terminalId) ==
  LET old == MapEntry(s, kind, tabId, terminalId)
  IN  [s EXCEPT !.timers = Canon((@ \ old) \cup {[t EXCEPT !.inMap = FALSE] : t \in old})]

\* const t = setTimeout(...); map.set(terminalId, t)
setTimeoutInMap(s, t) ==
  LET s1 == mapDelete(s, t.kind, t.tabId, t.terminalId)
      n == Cardinality({u \in s1.timers : [u EXCEPT !.copy = 1] = t})
  IN  [s1 EXCEPT !.timers = @ \cup {[t EXCEPT !.copy = n + 1]}]

\* setTimeout(...) whose handle is not kept
setTimeoutLoose(s, t) ==
  LET u == [t EXCEPT !.inMap = FALSE]
      n == Cardinality({v \in s.timers : [v EXCEPT !.copy = 1] = u})
  IN  [s EXCEPT !.timers = @ \cup {[u EXCEPT !.copy = n + 1]}]

\* clearTimeout(map.get(terminalId)) when there is an entry
clearTimeoutOf(s, kind, tabId, terminalId) ==
  [s EXCEPT !.timers = Canon(@ \ MapEntry(s, kind, tabId, terminalId))]

CanSetTimeout(s) == Cardinality(s.timers) < MaxTimers

(***************************************************************************)
(* TabManager                                                              *)
(***************************************************************************)
TabKeys(s) == s.tabs                    \* Array.from(this.tabs.keys())
hasTab(s, tabId) == \E k \in 1..Len(s.tabs) : s.tabs[k] = tabId
\* getTabState that finds a TabState under every id
getTabStateAny(s, tabId) == tabId

\* getTabState: the tab id itself names the TabState, 0 is undefined
getTabState(s, tabId) == IF hasTab(s, tabId) THEN tabId ELSE 0

\* the TabState stored under tabId leaves the tab map: the closures that
\* hold it keep it, nothing else reaches it any more
Detach(s, tabId) ==
  [s EXCEPT
     !.timers = Canon({IF t.tabId = tabId /\ t.attached
                       THEN [t EXCEPT !.inMap = FALSE,
                                      !.attached = (t.kind # "cmd"),
                                      !.has = (t.kind = "cmd" /\
                                               s.tabState[tabId].ptyProcesses[t.terminalId] # 0)]
                       ELSE t : t \in @}),
     !.dialogs = {IF d.tabId = tabId /\ d.attached
                  THEN [d EXCEPT !.attached = FALSE,
                                 !.pid = s.tabState[tabId].ptyProcesses[d.terminalId]]
                  ELSE d : d \in @},
     !.tabState[tabId] = createTabState]

\* this.tabs.set(tabId, this.createTabState())
tabsSet(s, tabId) ==
  IF hasTab(s, tabId) THEN Detach(s, tabId)
  ELSE [s EXCEPT !.tabs = Append(@, tabId), !.tabState[tabId] = createTabState]

\* this.tabs.delete(tabId)
tabsDelete(s, tabId) ==
  IF hasTab(s, tabId)
  THEN [Detach(s, tabId) EXCEPT !.tabs = SelectSeq(@, LAMBDA e : e # tabId)]
  ELSE s

\* this.tabs.clear()
RECURSIVE tabsClear(_)
tabsClear(s) ==
  IF Len(s.tabs) = 0 THEN s ELSE tabsClear(tabsDelete(s, s.tabs[1]))

initializeFirstTab(s) ==
  IF Len(s.tabs) = 0 THEN tabsSet(s, 1) ELSE s

\* createTab that does not advance _nextTabId
createTabNoAdvance(s) ==
  LET newTabId == s.nextTabId
      s2 == tabsSet(s, newTabId)
      s3 == [s2 EXCEPT !.activeTabId = newTabId]
  IN  sendTabCreated(s3, newTabId)

createTab(s) ==
  LET newTabId == s.nextTabId
      s1 == [s EXCEPT !.nextTabId = @ + 1]
      s2 == tabsSet(s1, newTabId)
      s3 == [s2 EXCEPT !.activeTabId = newTabId]
  IN  sendTabCreated(s3, newTabId)

\* switchTab that stores a new TabState under the tab it leaves
switchTabResetsOld(s, tabId) ==
  IF hasTab(s, tabId)
  THEN sendTabSwitched([tabsSet(s, s.activeTabId) EXCEPT !.activeTabId = tabId],
                       tabId)
  ELSE s

\* switchTab without its this.tabs.has(tabId) test
switchTabNoGuard(s, tabId) ==
  sendTabSwitched([s EXCEPT !.activeTabId = tabId], tabId)

switchTab(s, tabId) ==
  IF hasTab(s, tabId)
  THEN sendTabSwitched([s EXCEPT !.activeTabId = tabId], tabId)
  ELSE s

\* TabManager.reset
reset(s) ==
  [tabsSet(tabsClear(s), 1) EXCEPT !.activeTabId = 1, !.nextTabId = 2]

(***************************************************************************)
(* The node-pty process layer                                              *)
(***************************************************************************)
PtyOp(op, pid, data) == [op |-> op, pid |-> pid, data |-> data]
NextPid(s) == CHOOSE p \in Pids \cup {Cardinality(Pids) + 1} :
                /\ (p \in Pids => s.procs[p].status = "unborn")
                /\ \A q \in Pids : q < p => s.procs[q].status # "unborn"

\* IPty.kill(): signals the process; its exit is notified later through onExit
ptyKill(s, pid) ==
  [s EXCEPT !.ptyOps = Append(@, PtyOp("kill", pid, "")),
            !.procs[pid].status = IF @ = "running" THEN "killed" ELSE @]

\* IPty.write(data)
ptyWrite(s, pid, data) == [s EXCEPT !.ptyOps = Append(@, PtyOp("write", pid, data))]

\* IPty.resize(cols, rows); a throw is swallowed by the caller
ptyResize(s, pid) == [s EXCEPT !.ptyOps = Append(@, PtyOp("resize", pid, ""))]

(***************************************************************************)
(* TerminalManager                                                         *)
(***************************************************************************)
\* clearIdleTimer that clears nothing
clearIdleTimerKeeps(s, tabId, terminalId) == s

clearIdleTimer(s, tabId, terminalId) ==
  IF getTabState(s, tabId) = 0 THEN s
  ELSE clearTimeoutOf(s, "idle", tabId, terminalId)

\* cleanupTerminal that leaves the bootstrap timer alone
cleanupTerminalKeepsTimeout(s, tabId, terminalId) ==
  LET existingPty == s.tabState[tabId].ptyProcesses[terminalId]
      s1 == IF existingPty # 0
            THEN [ptyKill(s, existingPty)
                    EXCEPT !.tabState[tabId].ptyProcesses[terminalId] = 0]
            ELSE s
      s2 == clearIdleTimer(s1, tabId, terminalId)
  IN  IF getTabState(s, tabId) = 0 THEN s
      ELSE [s2 EXCEPT !.tabState[tabId].terminalBusy[terminalId] = "unset",
                      !.tabState[tabId].terminalProjects[terminalId] = "none"]

\* cleanupTerminal that clears every entry of the tab's two timer maps
cleanupTerminalAllTimers(s, tabId, terminalId) ==
  LET existingPty == s.tabState[tabId].ptyProcesses[terminalId]
      s1 == IF existingPty # 0
            THEN [ptyKill(s, existingPty)
                    EXCEPT !.tabState[tabId].ptyProcesses[terminalId] = 0]
            ELSE s
      s3 == [s1 EXCEPT !.timers = Canon({t \in @ : ~(t.tabId = tabId /\ t.inMap
                                                     /\ t.attached)})]
  IN  IF getTabState(s, tabId) = 0 THEN s
      ELSE [s3 EXCEPT !.tabState[tabId].terminalBusy[terminalId] = "unset",
                      !.tabState[tabId].terminalProjects[terminalId] = "none"]

cleanupTerminal(s, tabId, terminalId) ==
  LET existingPty == s.tabState[tabId].ptyProcesses[terminalId]
      s1 == IF existingPty # 0
            THEN [ptyKill(s, existingPty)
                    EXCEPT !.tabState[tabId].ptyProcesses[terminalId] = 0]
            ELSE s
      s2 == clearIdleTimer(s1, tabId, terminalId)
      s3 == clearTimeoutOf(s2, "cmd", tabId, terminalId)
  IN  IF getTabState(s, tabId) = 0 THEN s
      ELSE [s3 EXCEPT !.tabState[tabId].terminalBusy[terminalId] = "unset",
                      !.tabState[tabId].terminalProjects[terminalId] = "none"]

\* the bootstrap command that never resumes
claudeCmdNoResume(sessionId) == "claude --dangerously-skip-permissions\r"

\* the bootstrap command written by the claudeCommandTimeouts callback
claudeCmd(sessionId) ==
  IF sessionId # ""
  THEN "claude --dangerously-skip-permissions --resume " \o sessionId \o "\r"
  ELSE "claude --dangerously-skip-permissions\r"

\* startTerminal without its cleanupTerminal call
startTerminalNoCleanup(s, tabId, terminalId, projectPath, sessionId, spawnOk) ==
  LET s2 == sendClear(s, tabId, terminalId)
      pid == NextPid(s2)
      s3 == [s2 EXCEPT
               !.procs[pid] = [status |-> "running", tabId |-> tabId,
                               terminalId |-> terminalId],
               !.ptyOps = Append(@, PtyOp("spawn", pid, projectPath)),
               !.tabState[tabId].ptyProcesses[terminalId] = pid,
               !.tabState[tabId].terminalProjects[terminalId] = projectPath,
               !.seen.kills[tabId][terminalId] = 0,
               !.seen.killed[tabId][terminalId] = 0]
  IN  IF getTabState(s, tabId) = 0 THEN s
      ELSE IF spawnOk
      THEN setTimeoutInMap(s3, Timer("cmd", SHELL_INIT_DELAY_MS, tabId,
                                     terminalId, pid, sessionId))
      ELSE sendError(s2, tabId, terminalId)

\* spawnOk = FALSE: pty.spawn throws
startTerminal(s, tabId, terminalId, projectPath, sessionId, spawnOk) ==
  LET s1 == cleanupTerminal(s, tabId, terminalId)
      s2 == sendClear(s1, tabId, terminalId)
      pid == NextPid(s2)
      s3 == [s2 EXCEPT
               !.procs[pid] = [status |-> "running", tabId |-> tabId,
                               terminalId |-> terminalId],
               !.ptyOps = Append(@, PtyOp("spawn", pid, projectPath)),
               !.tabState[tabId].ptyProcesses[terminalId] = pid,
               !.tabState[tabId].terminalProjects[terminalId] = projectPath,
               !.seen.kills[tabId][terminalId] = 0,
               !.seen.killed[tabId][terminalId] = 0]
  IN  IF getTabState(s, tabId) = 0 THEN s
      ELSE IF spawnOk
      THEN setTimeoutInMap(s3, Timer("cmd", SHELL_INIT_DELAY_MS, tabId,
                                     terminalId, pid, sessionId))
      ELSE sendError(s2, tabId, terminalId)

\* the callback of the claudeCommandTimeouts timer t (already off the queue)
claudeCommandTimeout(s, t) ==
  LET has == IF t.attached
             THEN s.tabState[t.tabId].ptyProcesses[t.terminalId] # 0
             ELSE t.has
      s1 == IF has
            THEN [ptyWrite(s, t.pid, claudeCmd(t.arg))
                    EXCEPT !.seen.bootstrap[t.pid] = @ \/ s.clock]
            ELSE s
  IN  IF t.attached THEN mapDelete(s1, "cmd", t.tabId, t.terminalId) ELSE s1

\* pid: the process whose output the call handles
markBusy(s, tabId, terminalId, pid) ==
  LET s1 == clearIdleTimer(s, tabId, terminalId)
      s2 == IF s1.tabState[tabId].terminalBusy[terminalId] # "true"
            THEN sendStatus([s1 EXCEPT !.tabState[tabId].terminalBusy[terminalId] = "true"],
                            tabId, terminalId, "busy")
            ELSE s1
  IN  IF getTabState(s, tabId) = 0 THEN s
      ELSE setTimeoutInMap(s2, Timer("idle", IDLE_TIMEOUT_MS, tabId,
                                     terminalId, pid, ""))

\* the idle callback without its terminalBusy.set(terminalId, false)
idleTimeoutKeepsBusy(s, t) ==
  LET s2 == sendStatus(s, t.tabId, t.terminalId, "idle")
  IN  IF getTabState(s, t.tabId) = 0 THEN s
      ELSE mapDelete(s2, "idle", t.tabId, t.terminalId)

\* the callback of the idle timer t (already off the queue)
idleTimeout(s, t) ==
  LET s1 == [s EXCEPT !.tabState[t.tabId].terminalBusy[t.terminalId] = "false"]
      s2 == sendStatus(s1, t.tabId, t.terminalId, "idle")
  IN  IF getTabState(s, t.tabId) = 0 THEN s
      ELSE mapDelete(s2, "idle", t.tabId, t.terminalId)

\* ptyProcess.onData callback of process pid
onData(s, pid, data) ==
  LET p == s.procs[pid]
  IN  markBusy(sendOutput(s, p.tabId, p.terminalId, data),
               p.tabId, p.terminalId, pid)

\* the onExit callback without its sendKilled
onExitSilent(s, pid) ==
  LET p == s.procs[pid]
  IN  cleanupTerminal(s, p.tabId, p.terminalId)

\* ptyProcess.onExit callback of process pid
onExit(s, pid) ==
  LET p == s.procs[pid]
  IN  sendKilled(cleanupTerminal(s, p.tabId, p.terminalId),
                 p.tabId, p.terminalId)

\* tabState?.ptyProcesses.get(terminalId), 0 for undefined
ptyOf(s, tabId, terminalId) ==
  IF getTabState(s, tabId) = 0 THEN 0
  ELSE s.tabState[tabId].ptyProcesses[terminalId]

handleInput(s, tabId, terminalId, data) ==
  LET ptyProcess == ptyOf(s, tabId, terminalId)
  IN  IF ptyProcess # 0 THEN ptyWrite(s, ptyProcess, data) ELSE s

handleResize(s, tabId, terminalId, cols, rows) ==
  LET ptyProcess == ptyOf(s, tabId, terminalId)
  IN  IF ptyProcess # 0 /\ cols > 0 /\ rows > 0
      THEN ptyResize(s, ptyProcess) ELSE s

\* killTerminal that signals the process and leaves the maps alone
killTerminalNoCleanup(s, tabId, terminalId) ==
  IF ptyOf(s, tabId, terminalId) # 0
  THEN sendKilled(ptyKill(s, ptyOf(s, tabId, terminalId)), tabId, terminalId)
  ELSE s

killTerminal(s, tabId, terminalId) ==
  IF ptyOf(s, tabId, terminalId) # 0
  THEN sendKilled(cleanupTerminal(s, tabId, terminalId), tabId, terminalId)
  ELSE s

\* restartTerminal without its "No project to restart" return
restartTerminalNoGuard(s, tabId, terminalId) ==
  LET projectPath == s.tabState[tabId].terminalProjects[terminalId]
      s1 == sendRestarting(s, tabId, terminalId)
      s2 == cleanupTerminal(s1, tabId, terminalId)
  IN  IF getTabState(s, tabId) = 0 THEN s
      ELSE setTimeoutLoose(s2, Timer("restart", RESTART_DELAY_MS, tabId,
                                     terminalId, 0, projectPath))

\* "" is the falsy project path; "none" is a missing map entry
restartTerminal(s, tabId, terminalId) ==
  LET projectPath == s.tabState[tabId].terminalProjects[terminalId]
      s1 == sendRestarting(s, tabId, terminalId)
      s2 == cleanupTerminal(s1, tabId, terminalId)
  IN  IF getTabState(s, tabId) = 0 THEN s
      ELSE IF projectPath \in {"none", ""} THEN s
      ELSE setTimeoutLoose(s2, Timer("restart", RESTART_DELAY_MS, tabId,
                                     terminalId, 0, projectPath))

\* cleanupTerminal for each key of ptyProcesses among keys
RECURSIVE cleanupEach(_, _, _)
cleanupEach(s, tabId, keys) ==
  IF keys = {} THEN s
  ELSE LET k == LeastOf(keys)
       IN  cleanupEach(IF s.tabState[tabId].ptyProcesses[k] # 0
                       THEN cleanupTerminal(s, tabId, k) ELSE s,
                       tabId, keys \ {k})

\* cleanupAllTerminalsInTab that cleans no slot
cleanupAllTerminalsInTabNone(s, tabId) == s

cleanupAllTerminalsInTab(s, tabId) ==
  IF getTabState(s, tabId) = 0 THEN s
  ELSE cleanupEach(s, tabId, TerminalIds)

\* disposeAll: kills and clears through the maps, deleting no entry
RECURSIVE disposeEach(_, _, _)
disposeEach(s, tabId, keys) ==
  IF keys = {} THEN s
  ELSE LET k == LeastOf(keys)
           pty == s.tabState[tabId].ptyProcesses[k]
           s1 == IF pty # 0 THEN ptyKill(s, pty) ELSE s
           s2 == clearTimeoutOf(s1, "idle", tabId, k)
           s3 == clearTimeoutOf(s2, "cmd", tabId, k)
       IN  disposeEach(s3, tabId, keys \ {k})

RECURSIVE disposeTabsFrom(_, _)
disposeTabsFrom(s, k) ==
  IF k > Len(s.tabs) THEN s
  ELSE disposeTabsFrom(disposeEach(s, s.tabs[k], TerminalIds), k + 1)

disposeAll(s) == disposeTabsFrom(s, 1)

(***************************************************************************)
(* TabManager.closeTab, in its two halves around the await                 *)
(***************************************************************************)
\* up to the await: TRUE when the confirmation prompt is shown
closeTabPrompts(s, tabId) ==
  /\ getTabState(s, tabId) # 0
  /\ \E i \in TerminalIds : s.tabState[tabId].ptyProcesses[i] # 0

\* closeTabProceed that creates no tab when none remains
closeTabProceedNoRecreate(s, tabId) ==
  LET s1 == cleanupAllTerminalsInTab(s, tabId)
      s2 == tabsDelete(s1, tabId)
      remainingTabs == TabKeys(s2)
      s3 == IF s2.activeTabId = tabId /\ Len(remainingTabs) > 0
            THEN [s2 EXCEPT !.activeTabId = remainingTabs[1]]
            ELSE s2
  IN  sendTabClosed(s3, tabId, s3.activeTabId)

\* closeTabProceed without this.tabs.delete(tabId)
closeTabProceedNoDelete(s, tabId) ==
  LET s2 == cleanupAllTerminalsInTab(s, tabId)
      remainingTabs == TabKeys(s2)
      s3 == IF s2.activeTabId = tabId
            THEN IF Len(remainingTabs) > 0
                 THEN [s2 EXCEPT !.activeTabId = remainingTabs[1]]
                 ELSE [tabsSet(s2, 1) EXCEPT !.activeTabId = 1, !.nextTabId = 2]
            ELSE s2
  IN  sendTabClosed(s3, tabId, s3.activeTabId)

\* closeTabProceed that makes the last remaining key active
closeTabProceedLast(s, tabId) ==
  LET s1 == cleanupAllTerminalsInTab(s, tabId)
      s2 == tabsDelete(s1, tabId)
      remainingTabs == TabKeys(s2)
      s3 == IF s2.activeTabId = tabId
            THEN IF Len(remainingTabs) > 0
                 THEN [s2 EXCEPT !.activeTabId = remainingTabs[Len(remainingTabs)]]
                 ELSE [tabsSet(s2, 1) EXCEPT !.activeTabId = 1, !.nextTabId = 2]
            ELSE s2
  IN  sendTabClosed(s3, tabId, s3.activeTabId)

\* closeTab that resets the allocator whenever it closed the active tab
closeTabProceedResets(s, tabId) ==
  LET s1 == cleanupAllTerminalsInTab(s, tabId)
      s2 == tabsDelete(s1, tabId)
      remainingTabs == TabKeys(s2)
      s3 == IF s2.activeTabId = tabId
            THEN IF Len(remainingTabs) > 0
                 THEN [s2 EXCEPT !.activeTabId = remainingTabs[1],
                                 !.nextTabId = 2]
                 ELSE [tabsSet(s2, 1) EXCEPT !.activeTabId = 1, !.nextTabId = 2]
            ELSE s2
  IN  sendTabClosed(s3, tabId, s3.activeTabId)

\* from "Cleanup all terminals in this tab" to the end
closeTabProceed(s, tabId) ==
  LET s1 == cleanupAllTerminalsInTab(s, tabId)
      s2 == tabsDelete(s1, tabId)
      remainingTabs == TabKeys(s2)
      s3 == IF s2.activeTabId = tabId
            THEN IF Len(remainingTabs) > 0
                 THEN [s2 EXCEPT !.activeTabId = remainingTabs[1]]
                 ELSE [tabsSet(s2, 1) EXCEPT !.activeTabId = 1, !.nextTabId = 2]
            ELSE s2
  IN  sendTabClosed(s3, tabId, s3.activeTabId)

closeTab(s, tabId) ==
  IF getTabState(s, tabId) = 0 THEN s
  ELSE IF closeTabPrompts(s, tabId)
  THEN [s EXCEPT !.prompts[tabId] = @ + 1]
  ELSE closeTabProceed(s, tabId)

\* closeTabAnswered that returns only on the answer 'No'
closeTabAnsweredUnlessNo(s, tabId, answer) ==
  LET s1 == [s EXCEPT !.prompts[tabId] = @ - 1]
  IN  IF answer = "No" THEN s1 ELSE closeTabProceed(s1, tabId)

\* the continuation of closeTab once showWarningMessage resolves
closeTabAnswered(s, tabId, answer) ==
  LET s1 == [s EXCEPT !.prompts[tabId] = @ - 1]
  IN  IF answer # "Yes" THEN s1 ELSE closeTabProceed(s1, tabId)

(***************************************************************************)
(* FileOperations.  A dropped or picked path is a string of Paths or       *)
(* DropTexts.                                                              *)
(***************************************************************************)
\* p.includes(' ')
includesSpace(p) == p = "/a b"

\* p.includes(' ') ? `"${p}"` : p
quotePath(p) == IF includesSpace(p) THEN "\"" \o p \o "\"" ELSE p

\* extractPath: the uri when it starts with '/', "" for null
extractPath(uri) == IF uri \in {"/a", "/a b"} THEN uri ELSE ""

\* data: the text of the drop
resolveDropData(s, tabId, terminalId, data) ==
  LET filePath == extractPath(data)
  IN  IF filePath # "" /\ ptyOf(s, tabId, terminalId) # 0
      THEN sendDropResolved(s, tabId, terminalId, quotePath(filePath))
      ELSE s

\* pickFilesForTerminal up to its await: the call keeps the TabState it
\* fetched (tabId 0: undefined); attached and pid as for a timer's closure
pickFilesForTerminal(s, tabId, terminalId) ==
  [s EXCEPT !.dialogs = @ \cup {[tabId |-> getTabState(s, tabId),
                                 terminalId |-> terminalId,
                                 attached |-> TRUE, pid |-> 0]}]

\* the continuation of the call d once showOpenDialog resolves; result "" is
\* a dismissed or empty selection
pickFilesAnswered(s, d, result) ==
  LET s1 == [s EXCEPT !.dialogs = @ \ {d}]
      ptyProcess == IF d.tabId = 0 THEN 0
                    ELSE IF d.attached
                    THEN s.tabState[d.tabId].ptyProcesses[d.terminalId]
                    ELSE d.pid
  IN  IF result # "" /\ ptyProcess # 0
      THEN ptyWrite(s1, ptyProcess, quotePath(result))
      ELSE s1

(***************************************************************************)
(* QuadTerminalViewProvider                                                *)
(***************************************************************************)
\* isValidTerminalId that also accepts TERMINAL_COUNT
isValidTerminalIdUpTo(terminalId) == terminalId \in 0..TERMINAL_COUNT

\* isValidTerminalId that accepts every id
isValidTerminalIdAny(terminalId) == terminalId = terminalId

isValidTerminalId(terminalId) == terminalId \in VALID_TERMINAL_IDS

InMsg(command, tabId, terminalId, data, resume) ==
  [command |-> command, tabId |-> tabId, terminalId |-> terminalId,
   data |-> data, resume |-> resume]

\* message.tabId || activeTabId
TabOf(s, message) == IF message.tabId # 0 THEN message.tabId ELSE s.activeTabId

handleMessage(s, message, spawnOk) ==
  LET tabId == TabOf(s, message)
  IN  CASE message.command = "ready" ->
             sendTerminalConfig(sendProjects(s))
        [] message.command = "selectProject" ->
             IF isValidTerminalId(message.terminalId)
             THEN startTerminal(s, tabId, message.terminalId, message.data,
                                message.resume, spawnOk)
             ELSE s
        [] message.command = "input" ->
             IF isValidTerminalId(message.terminalId)
             THEN handleInput(s, tabId, message.terminalId, message.data)
             ELSE s
        [] message.command = "resize" ->
             IF isValidTerminalId(message.terminalId)
             THEN handleResize(s, tabId, message.terminalId, 80, 24)
             ELSE s
        [] message.command = "kill" ->
             IF isValidTerminalId(message.terminalId)
             THEN killTerminal(s, tabId, message.terminalId)
             ELSE s
        [] message.command = "restart" ->
             IF isValidTerminalId(message.terminalId)
             THEN restartTerminal(s, tabId, message.terminalId)
             ELSE s
        [] message.command = "resolveDrop" ->
             IF isValidTerminalId(message.terminalId)
             THEN resolveDropData(s, tabId, message.terminalId, message.data)
             ELSE s
        [] message.command = "pickFiles" ->
             IF isValidTerminalId(message.terminalId)
             THEN pickFilesForTerminal(s, tabId, message.terminalId)
             ELSE s
        [] message.command = "createTab" -> createTab(s)
        [] message.command = "switchTab" -> switchTab(s, message.tabId)
        [] message.command = "closeTab" -> closeTab(s, message.tabId)
        [] OTHER -> s

disposeAllResources(s) == reset(disposeAll(s))

refresh(s) == sendProjects(sendRefresh(disposeAllResources(s)))

(***************************************************************************)
(* The webview script (webview/scripts/main.js): its tabState (per tab the *)
(* terminalProjects and which slot containers carry the class hidden-slot), *)
(* activeTabId, whether the project select lists the projects, its value,  *)
(* the disabled attribute of                                               *)
(* the add-terminal button, and the pending setTimeout(..., 100) callbacks *)
(* of addTerminal, oldest first.                                           *)
(***************************************************************************)
WebviewTab ==
  [ terminalProjects |-> [i \in VALID_TERMINAL_IDS |-> ""],
    hidden           |-> [i \in VALID_TERMINAL_IDS |-> i # 0] ]

WebviewInit ==
  [ on          |-> TRUE,
    tabs        |-> {1},
    tabState    |-> [t \in TabIds |-> WebviewTab],
    activeTabId |-> 1,
    options     |-> FALSE,
    select      |-> "",
    addDisabled |-> TRUE,
    starts      |-> <<>> ]

\* vscode.postMessage(message)
postMessage(s, message) == [s EXCEPT !.toHost = Append(@, message)]

hasAvailableSlot(s) ==
  LET w == s.webview
      tab == w.tabState[w.activeTabId]
  IN  /\ w.activeTabId \in w.tabs
      /\ \E i \in VALID_TERMINAL_IDS :
            \/ ~tab.hidden[i] /\ tab.terminalProjects[i] = ""
            \/ tab.hidden[i]

updateAddButtonState(s) ==
  [s EXCEPT !.webview.addDisabled =
              (s.webview.select = "") \/ ~hasAvailableSlot(s)]

\* updateGridLayout: the grid classes and the terminal count are presentation
updateGridLayout(s) == updateAddButtonState(s)

startTerminalWithProject(s, terminalId, projectPath, resume) ==
  LET w == s.webview
  IN  IF w.activeTabId \notin w.tabs THEN s
      ELSE postMessage(
             [s EXCEPT !.webview.tabState[w.activeTabId]
                          .terminalProjects[terminalId] = projectPath],
             InMsg("selectProject", w.activeTabId, terminalId, projectPath,
                   resume))

\* setTimeout(function() { startTerminalWithProject(tid, ...) }, 100)
setStartTimeout(s, tid, projectPath) ==
  [s EXCEPT !.webview.starts =
              Append(@, [terminalId |-> tid, projectPath |-> projectPath])]

\* the click handler of the add-terminal button
addTerminal(s) ==
  LET w == s.webview
      tab == w.tabState[w.activeTabId]
      projectPath == w.select
      visibleEmpty == {i \in VALID_TERMINAL_IDS :
                         ~tab.hidden[i] /\ tab.terminalProjects[i] = ""}
      hiddenSlots == {i \in VALID_TERMINAL_IDS : tab.hidden[i]}
  IN  IF w.activeTabId \notin w.tabs THEN s
      ELSE IF projectPath = "" THEN s
      ELSE IF visibleEmpty # {}
      THEN setStartTimeout(s, LeastOf(visibleEmpty), projectPath)
      ELSE IF hiddenSlots # {}
      THEN LET i == LeastOf(hiddenSlots)
               s1 == [s EXCEPT !.webview.tabState[w.activeTabId].hidden[i] = FALSE]
           IN  setStartTimeout(updateGridLayout(s1), i, projectPath)
      ELSE postMessage(s, InMsg("createTab", 0, -1, "", ""))

switchTabUI(s, tabId) ==
  IF tabId \notin s.webview.tabs THEN s
  ELSE [s EXCEPT !.webview.activeTabId = tabId]

\* createTab(tabId) of the webview script
webviewCreateTab(s, tabId) ==
  switchTabUI([s EXCEPT !.webview.tabs = @ \cup {tabId},
                        !.webview.tabState[tabId] = WebviewTab], tabId)

removeTab(s, tabId) ==
  [s EXCEPT !.webview.tabs = @ \ {tabId},
            !.webview.tabState[tabId] = WebviewTab]

removeTerminalSlot(s, terminalId) ==
  LET w == s.webview
      hidden1 == [w.tabState[w.activeTabId].hidden EXCEPT ![terminalId] = TRUE]
      hidden2 == IF \A i \in VALID_TERMINAL_IDS : hidden1[i]
                 THEN [hidden1 EXCEPT ![0] = FALSE] ELSE hidden1
  IN  IF w.activeTabId \notin w.tabs THEN s
      ELSE updateGridLayout(
             [s EXCEPT !.webview.tabState[w.activeTabId].hidden = hidden2])

\* the 'message' listener of the webview script
webviewOnMessage(s, message) ==
  LET w == s.webview
      msgTabId == IF message.tabId # 0 THEN message.tabId ELSE w.activeTabId
  IN  CASE message.command = "projects" ->
             updateAddButtonState([s EXCEPT !.webview.options = TRUE])
        [] message.command = "killed" ->
             LET s1 == IF msgTabId \in w.tabs
                       THEN [s EXCEPT !.webview.tabState[msgTabId]
                                         .terminalProjects[message.terminalId] = ""]
                       ELSE s
             IN  IF msgTabId = w.activeTabId
                 THEN removeTerminalSlot(s1, message.terminalId) ELSE s1
        [] message.command = "refresh" ->
             LET s1 == IF w.activeTabId \in w.tabs
                       THEN [s EXCEPT
                               !.webview.tabState[w.activeTabId].terminalProjects =
                                  [i \in VALID_TERMINAL_IDS |-> ""],
                               !.webview.tabState[w.activeTabId].hidden =
                                  [i \in VALID_TERMINAL_IDS |-> (i > 0) \/ @[i]]]
                       ELSE s
             IN  updateGridLayout([s1 EXCEPT !.webview.select = ""])
        [] message.command = "tabCreated" ->
             webviewCreateTab(s, message.tabId)
        [] message.command = "tabClosed" ->
             IF message.newActiveTabId # 0
             THEN switchTabUI(removeTab(s, message.tabId), message.newActiveTabId)
             ELSE removeTab(s, message.tabId)
        [] message.command = "tabSwitched" -> switchTabUI(s, message.tabId)
        [] OTHER -> s

InitState ==
  /\ view = FALSE
  /\ tabs = <<>>
  /\ tabState = [t \in TabIds |-> createTabState]
  /\ activeTabId = 1
  /\ nextTabId = 2
  /\ procs = [p \in Pids |-> NoProc]
  /\ timers = {}
  /\ prompts = [t \in TabIds |-> 0]
  /\ busyAge = [t \in TabIds |-> [i \in TerminalIds |-> IDLE_TIMEOUT_MS]]
  /\ seen = [ earlyIdle |-> [t \in TabIds |-> [i \in TerminalIds |-> FALSE]],
              kills     |-> [t \in TabIds |-> [i \in TerminalIds |-> 0]],
              killed    |-> [t \in TabIds |-> [i \in TerminalIds |-> 0]],
              bootstrap |-> [p \in Pids |-> FALSE],
              autoTab   |-> FALSE,
              autoStart |-> FALSE ]
  /\ dialogs = {}
  /\ toHost = <<>>
  /\ toWebview = <<>>

\* Spec: a pending timer fires at any later moment (its delay is not measured)
Init == InitState /\ clock = FALSE /\ webview = [WebviewInit EXCEPT !.on = FALSE]

\* SpecTimed: a timer fires when its delay has elapsed on the clock
InitTimed ==
  InitState /\ clock = TRUE /\ webview = [WebviewInit EXCEPT !.on = FALSE]

\* SpecWebview: the webview script runs at the other end of the two queues
InitWebview == InitState /\ clock = FALSE /\ webview = WebviewInit

\* The state record the handlers transform; sent and ptyOps collect what the
\* handler posts to the webview and what it calls on the process layer.
Cur ==
  [ view |-> view, tabs |-> tabs, tabState |-> tabState,
    activeTabId |-> activeTabId, nextTabId |-> nextTabId, procs |-> procs,
    timers |-> timers, prompts |-> prompts, clock |-> clock,
    busyAge |-> busyAge, seen |-> seen, dialogs |-> dialogs,
    webview |-> webview, toHost |-> toHost, toWebview |-> toWebview,
    sent |-> <<>>, ptyOps |-> <<>> ]

Commit(s) ==
  /\ view' = s.view
  /\ tabs' = s.tabs
  /\ tabState' = s.tabState
  /\ activeTabId' = s.activeTabId
  /\ nextTabId' = s.nextTabId
  /\ procs' = s.procs
  /\ timers' = s.timers
  /\ prompts' = s.prompts
  /\ clock' = s.clock
  /\ busyAge' = s.busyAge
  /\ seen' = s.seen
  /\ dialogs' = s.dialogs
  /\ webview' = s.webview
  /\ toHost' = s.toHost
  /\ toWebview' = s.toWebview

(***************************************************************************)
(* Actions: one per handler.  Inbound messages are delivered only once the *)
(* listener is registered (resolveWebviewView).  An action takes the sets  *)
(* its message fields are drawn from.                                      *)
(***************************************************************************)
\* setting webview.html loads the webview script, which ends by posting
\* 'ready'
ResolveWebviewView ==
  /\ ~view
  /\ Commit(initializeFirstTab(
              [Cur EXCEPT !.view = TRUE,
                          !.toHost = IF webview.on
                                     THEN Append(@, InMsg("ready", 0, -1, "", ""))
                                     ELSE @]))

Ready ==
  /\ view
  /\ Commit(handleMessage(Cur, InMsg("ready", 0, -1, "", ""), TRUE))

SelectProjectOf(TabSet, TerminalSet, PathSet, ResumeSet, maxPid) ==
  /\ view
  /\ CanSetTimeout(Cur)
  /\ \E tabId \in TabSet, terminalId \in TerminalSet,
        projectPath \in PathSet, resume \in ResumeSet, spawnOk \in BOOLEAN :
       /\ spawnOk => NextPid(Cur) <= maxPid
       /\ Commit(handleMessage(Cur, InMsg("selectProject", tabId, terminalId,
                                          projectPath, resume), spawnOk))

InputOf(TabSet, TerminalSet) ==
  /\ view
  /\ \E tabId \in TabSet, terminalId \in TerminalSet, data \in Chunks :
       Commit(handleMessage(Cur, InMsg("input", tabId, terminalId, data, ""), TRUE))

ResizeOf(TabSet, TerminalSet) ==
  /\ view
  /\ \E tabId \in TabSet, terminalId \in TerminalSet :
       Commit(handleMessage(Cur, InMsg("resize", tabId, terminalId, "", ""), TRUE))

\* the observer, as a kill message for the slot arrives: a kill that finds
\* the slot occupied starts the count of the kills and of the killed events
\* of the slot; a kill after it is counted
seenKill(s, tabId, terminalId) ==
  IF ~(s.clock /\ tabId \in TabIds /\ terminalId \in TerminalIds) THEN s
  ELSE IF ptyOf(s, tabId, terminalId) # 0
  THEN [s EXCEPT !.seen.kills[tabId][terminalId] = 1,
                 !.seen.killed[tabId][terminalId] = 0]
  ELSE IF s.seen.kills[tabId][terminalId] > 0
  THEN [s EXCEPT !.seen.kills[tabId][terminalId] = Min(MaxSeen, @ + 1)]
  ELSE s

KillOf(TabSet, TerminalSet) ==
  /\ view
  /\ \E tabId \in TabSet, terminalId \in TerminalSet :
       LET message == InMsg("kill", tabId, terminalId, "", "")
       IN  Commit(handleMessage(seenKill(Cur, TabOf(Cur, message), terminalId),
                                message, TRUE))

RestartOf(TabSet, TerminalSet) ==
  /\ view
  /\ CanSetTimeout(Cur)
  /\ \E tabId \in TabSet, terminalId \in TerminalSet :
       Commit(handleMessage(Cur, InMsg("restart", tabId, terminalId, "", ""), TRUE))

ResolveDropOf(TabSet, TerminalSet) ==
  /\ view
  /\ \E tabId \in TabSet, terminalId \in TerminalSet, data \in DropTexts :
       Commit(handleMessage(Cur, InMsg("resolveDrop", tabId, terminalId, data, ""),
                            TRUE))

PickFilesOf(TabSet, TerminalSet) ==
  /\ view
  /\ Cardinality(dialogs) < MaxDialogs
  /\ \E tabId \in TabSet, terminalId \in TerminalSet :
       Commit(handleMessage(Cur, InMsg("pickFiles", tabId, terminalId, "", ""),
                            TRUE))

\* showOpenDialog resolves: with a selection, or undefined when dismissed
PickFilesAnswer ==
  \E d \in dialogs, result \in DropTexts :
    Commit(pickFilesAnswered(Cur, d, result))

CreateTabUpTo(maxTabId) ==
  /\ view
  /\ nextTabId <= maxTabId
  /\ Commit(handleMessage(Cur, InMsg("createTab", 0, -1, "", ""), TRUE))

SwitchTabOf(TabSet) ==
  /\ view
  /\ \E tabId \in TabSet :
       Commit(handleMessage(Cur, InMsg("switchTab", tabId, -1, "", ""), TRUE))

\* closeTab up to its await, or to its end when no prompt is shown
CloseTabOf(TabSet) ==
  /\ view
  /\ \E tabId \in TabSet :
       /\ closeTabPrompts(Cur, tabId) => prompts[tabId] < MaxPrompts
       /\ Commit(handleMessage(Cur, InMsg("closeTab", tabId, -1, "", ""), TRUE))

\* showWarningMessage resolves: 'Yes', 'No', or undefined when dismissed
CloseTabAnswer ==
  \E tabId \in TabIds, answer \in {"Yes", "No", "undefined"} :
    /\ prompts[tabId] > 0
    /\ Commit(closeTabAnswered(Cur, tabId, answer))

\* the quadTerminal.refresh command
Refresh ==
  Commit(refresh(Cur))

\* webviewView.onDidDispose, and provider.dispose()
Dispose ==
  /\ view
  /\ Commit(disposeAllResources(Cur))

\* the process layer delivers an output chunk of process pid; a process that
\* was signalled can still deliver output until its exit is reported
PtyData ==
  \E pid \in Pids, data \in Chunks :
    /\ procs[pid].status \in {"running", "killed"}
    /\ CanSetTimeout(Cur)
    /\ Commit(onData(Cur, pid, data))

\* the process layer reports the exit of process pid (killed or on its own)
PtyExit ==
  \E pid \in Pids :
    /\ procs[pid].status \in {"running", "killed"}
    /\ Commit([onExit(Cur, pid) EXCEPT !.procs[pid] =
                                     [NoProc EXCEPT !.status = "exited"]])

\* timer t may run its callback
Due(t) == clock => t.left = 0

\* the queue hands the due timer t to its callback
Dequeue(s, t) == [s EXCEPT !.timers = Canon(@ \ {t})]

IdleTimerFires ==
  \E t \in timers :
    /\ t.kind = "idle" /\ Due(t)
    /\ Commit(idleTimeout(Dequeue(Cur, t), t))

ClaudeCommandTimerFires ==
  \E t \in timers :
    /\ t.kind = "cmd" /\ Due(t)
    /\ Commit(claudeCommandTimeout(Dequeue(Cur, t), t))

\* the callback of restartTerminal's timer: startTerminal without a sessionId
RestartTimerFiresUpTo(maxPid) ==
  \E t \in timers, spawnOk \in BOOLEAN :
    /\ t.kind = "restart" /\ Due(t)
    /\ spawnOk => NextPid(Cur) <= maxPid
    /\ Commit(startTerminal(Dequeue(Cur, t), t.tabId, t.terminalId, t.arg, "",
                            spawnOk))

\* d ms pass
Elapse(s, d) ==
  [s EXCEPT
     !.timers = Canon({[t EXCEPT !.left = Max(0, @ - d)] : t \in @}),
     !.busyAge = [tb \in TabIds |-> [i \in TerminalIds |->
                    Min(IDLE_TIMEOUT_MS, @[tb][i] + d)]]]

\* On the clock: no timer is due (the event loop runs a due timer before
\* time moves on), and time passes until the next timer is due.
Tick ==
  /\ clock
  /\ timers # {}
  /\ \A t \in timers : t.left > 0
  /\ Commit(Elapse(Cur, LeastOf({t.left : t \in timers})))

SelectProject ==
  SelectProjectOf(TabIdInputs, TerminalIdInputs, Paths, Resumes, MaxPid)
Input == InputOf(TabIdInputs, TerminalIdInputs)
Resize == ResizeOf(TabIdInputs, TerminalIdInputs)
Kill == KillOf(TabIdInputs, TerminalIdInputs)
Restart == RestartOf(TabIdInputs, TerminalIdInputs)
RestartTimerFires == RestartTimerFiresUpTo(MaxPid)
CreateTab == CreateTabUpTo(MaxTabId)
SwitchTab == SwitchTabOf(TabIdInputs)
CloseTab == CloseTabOf(TabIdInputs)

Next ==
  \/ ResolveWebviewView
  \/ Ready
  \/ SelectProject
  \/ Input
  \/ Resize
  \/ Kill
  \/ Restart
  \/ CreateTab
  \/ SwitchTab
  \/ CloseTab
  \/ CloseTabAnswer
  \/ Refresh
  \/ Dispose
  \/ PtyData
  \/ PtyExit
  \/ IdleTimerFires
  \/ ClaudeCommandTimerFires
  \/ RestartTimerFires

Spec == Init /\ [][Next]_vars

(***************************************************************************)
(* The same handlers on the clock, in an environment that addresses one    *)
(* slot of the active tab.                                                 *)
(***************************************************************************)
SelectProjectTimed == SelectProjectOf({0}, {0}, {"/a"}, Resumes, MaxPid)
InputTimed == InputOf({0}, {0})
KillTimed == KillOf({0}, {0})
RestartTimed == RestartOf({0}, {0})
CloseTabTimed == CloseTabOf({1})

NextTimed ==
  \/ ResolveWebviewView
  \/ SelectProjectTimed
  \/ InputTimed
  \/ KillTimed
  \/ RestartTimed
  \/ CloseTabTimed
  \/ CloseTabAnswer
  \/ Refresh
  \/ PtyData
  \/ PtyExit
  \/ IdleTimerFires
  \/ ClaudeCommandTimerFires
  \/ RestartTimerFires
  \/ Tick

SpecTimed == InitTimed /\ [][NextTimed]_vars

(***************************************************************************)
(* The one-slot environment off the clock, with timers that fire: an idle  *)
(* timer that stays pending is run by the event loop at some time.         *)
(***************************************************************************)
NextIdle ==
  \/ ResolveWebviewView
  \/ SelectProjectTimed
  \/ KillTimed
  \/ RestartTimed
  \/ CloseTabTimed
  \/ CloseTabAnswer
  \/ Refresh
  \/ PtyData
  \/ PtyExit
  \/ IdleTimerFires
  \/ ClaudeCommandTimerFires
  \/ RestartTimerFires

SpecIdle == Init /\ [][NextIdle]_vars /\ WF_vars(IdleTimerFires)

(***************************************************************************)
(* The tab handlers with tab ids up to MaxTabIdTabs, in an environment     *)
(* that starts sessions in slot 0 only and whose processes stay silent.    *)
(***************************************************************************)
SelectProjectTabs ==
  SelectProjectOf(0..MaxTabIdTabs, {0}, {"/a"}, {""}, MaxPid)
CreateTabTabs == CreateTabUpTo(MaxTabIdTabs)
SwitchTabTabs == SwitchTabOf(0..MaxTabIdTabs)
CloseTabTabs == CloseTabOf(0..MaxTabIdTabs)

NextTabs ==
  \/ ResolveWebviewView
  \/ SelectProjectTabs
  \/ CreateTabTabs
  \/ SwitchTabTabs
  \/ CloseTabTabs
  \/ CloseTabAnswer
  \/ Refresh
  \/ PtyExit
  \/ ClaudeCommandTimerFires

SpecTabs == Init /\ [][NextTabs]_vars

(***************************************************************************)
(* The session handlers with up to MaxPidSlots processes, in an            *)
(* environment that addresses every slot of the active tab, and the slot   *)
(* id that is not valid.                                                   *)
(***************************************************************************)
SelectProjectSlots ==
  SelectProjectOf({0}, TerminalIds, {"/a"}, {""}, MaxPidSlots)
InputSlots == InputOf({0}, {0, TERMINAL_COUNT})
ResizeSlots == ResizeOf({0}, {0, TERMINAL_COUNT})
KillSlots == KillOf({0}, {0, TERMINAL_COUNT})
ResolveDropSlots == ResolveDropOf({0}, {0, TERMINAL_COUNT})
PickFilesSlots == PickFilesOf({0}, {0, TERMINAL_COUNT})
RestartSlots == RestartOf({0}, {0, TERMINAL_COUNT})
RestartTimerFiresSlots == RestartTimerFiresUpTo(MaxPidSlots)

NextSlots ==
  \/ ResolveWebviewView
  \/ SelectProjectSlots
  \/ InputSlots
  \/ ResizeSlots
  \/ KillSlots
  \/ RestartSlots
  \/ ResolveDropSlots
  \/ PickFilesSlots
  \/ PickFilesAnswer
  \/ PtyExit
  \/ ClaudeCommandTimerFires
  \/ RestartTimerFiresSlots

SpecSlots == Init /\ [][NextSlots]_vars

(***************************************************************************)
(* The host with the webview script at the other end of the two message    *)
(* queues: the user picks a project and clicks the add-terminal button,    *)
(* the script's timers fire, and each side receives what the other posted. *)
(***************************************************************************)
\* the change event of the project select
ChooseProject ==
  /\ view /\ webview.on
  /\ webview.options
  /\ webview.select = ""
  /\ Commit(updateAddButtonState([Cur EXCEPT !.webview.select = "/a"]))

\* the observer, as the add-terminal button is clicked: it notes whether the
\* session is requested while the four slots of the active tab are occupied
seenAdd(s) ==
  [s EXCEPT !.seen.autoTab =
               /\ s.webview.activeTabId = s.activeTabId
               /\ hasTab(s, s.activeTabId)
               /\ \A i \in VALID_TERMINAL_IDS :
                     s.tabState[s.activeTabId].ptyProcesses[i] # 0,
            !.seen.autoStart = FALSE]

\* a click on the add-terminal button (a disabled button takes no click)
ClickAddTerminal ==
  /\ view /\ webview.on
  /\ ~webview.addDisabled
  /\ Len(webview.starts) + Len(toHost) < MaxQueue
  /\ Commit(addTerminal(seenAdd(Cur)))

\* the oldest setTimeout callback of addTerminal runs
StartTimerFires ==
  /\ webview.starts # <<>>
  /\ LET t == Head(webview.starts)
     IN  Commit(startTerminalWithProject(
                  [Cur EXCEPT !.webview.starts = Tail(@)],
                  t.terminalId, t.projectPath, ""))

\* the observer, as the host receives a message: a selectProject starts a
\* session
seenStart(s, message) ==
  IF message.command = "selectProject"
  THEN [s EXCEPT !.seen.autoStart = s.seen.autoTab] ELSE s

\* onDidReceiveMessage delivers the oldest message the webview posted
HostReceive ==
  /\ view
  /\ toHost # <<>>
  /\ LET message == Head(toHost)
         s == seenStart([Cur EXCEPT !.toHost = Tail(@)], message)
     IN  \E spawnOk \in BOOLEAN :
           /\ (message.command = "selectProject" /\ spawnOk)
                => NextPid(Cur) <= MaxPidSlots
           /\ message.command # "selectProject" => spawnOk
           /\ message.command = "createTab" => nextTabId <= MaxTabId
           /\ Commit(handleMessage(s, message, spawnOk))

\* the webview's 'message' listener receives the oldest message the host
\* posted
WebviewReceive ==
  /\ toWebview # <<>>
  /\ Commit(webviewOnMessage([Cur EXCEPT !.toWebview = Tail(@)],
                             Head(toWebview)))

NextWebview ==
  \/ ResolveWebviewView
  \/ ChooseProject
  \/ ClickAddTerminal
  \/ StartTimerFires
  \/ HostReceive
  \/ WebviewReceive
  \/ PtyExit

SpecWebview == InitWebview /\ [][NextWebview]_vars

(***************************************************************************)
(* Properties.                                                             *)
(***************************************************************************)
\* the slots of the tab that hold a process handle or a working directory
Occupied(tabId) ==
  {i \in TerminalIds : \/ tabState[tabId].ptyProcesses[i] # 0
                            \/ tabState[tabId].terminalProjects[i] # "none"}

\* the TabState under tabId is as createTabState made it
Fresh(s, tabId) ==
  /\ s.tabState[tabId] = createTabState
  /\ \A t \in s.timers : t.tabId = tabId => ~t.inMap

\* the states in which a closeTab(tabId) that runs to its end leaves the
\* program: a call that shows no prompt, or a pending prompt answered 'Yes'
ClosedBy(tabId) ==
  (IF view /\ hasTab(Cur, tabId) /\ ~closeTabPrompts(Cur, tabId)
   THEN {closeTab(Cur, tabId)} ELSE {})
  \cup
  (IF prompts[tabId] > 0 THEN {closeTabAnswered(Cur, tabId, "Yes")} ELSE {})

\* the events of the command among the events the handler posted
Posted(s, command) == SelectSeq(s.sent, LAMBDA m : m.command = command)

\* C1: at every moment, no two processes that were spawned and are not yet
\* killed or exited belong to the same (tab, slot).
C1_OneLiveProcessPerSlot ==
  \A p, q \in Pids :
    (p # q /\ procs[p].status = "running" /\ procs[q].status = "running")
      => <<procs[p].tabId, procs[p].terminalId>>
           # <<procs[q].tabId, procs[q].terminalId>>

\* a start into an occupied slot has killed the occupant and spawned its
\* successor: the slot's process runs, its predecessor is killed
C1_Witness ==
  \E p, q \in Pids :
    /\ procs[p].status = "killed" /\ procs[q].status = "running"
    /\ procs[p].tabId = procs[q].tabId
    /\ procs[p].terminalId = procs[q].terminalId
    /\ tabState[procs[q].tabId].ptyProcesses[procs[q].terminalId] = q

\* C2: in every reachable state every tab of the tab map has at most
\* TERMINAL_COUNT (4) occupied slots, and every occupied slot id is one of
\* 0, 1, 2, 3.
C2_SlotsValid ==
  \A k \in 1..Len(tabs) :
    /\ Cardinality(Occupied(tabs[k])) <= TERMINAL_COUNT
    /\ Occupied(tabs[k]) \subseteq VALID_TERMINAL_IDS

\* the four slots of a tab hold a live process each, after a fifth session
\* was killed
C2_Witness ==
  /\ hasTab(Cur, 1)
  /\ Occupied(1) = VALID_TERMINAL_IDS
  /\ \A i \in VALID_TERMINAL_IDS : tabState[1].ptyProcesses[i] # 0
  /\ \E p \in Pids : procs[p].status = "killed"

\* C3: once initializeFirstTab has run, in every reachable state the tab map
\* is not empty and the active tab id is a key of the tab map.
C3_ActiveTabPresent ==
  view => (Len(tabs) > 0 /\ hasTab(Cur, activeTabId))

\* tab 1 was closed, tab 2 is the only and the active tab, and a closeTab of
\* it waits for its confirmation
C3_Witness ==
  /\ view
  /\ tabs = <<2>>
  /\ activeTabId = 2
  /\ prompts[2] = 1

\* C4 as stated: after a confirmed closeTab(id) has run to its end, id is not
\* a key of the tab map, also when id was the only tab.
C4_ClosedTabAbsent ==
  \A tabId \in TabIds : \A s1 \in ClosedBy(tabId) : ~hasTab(s1, tabId)

\* C4: after a confirmed closeTab(id) has run to its end, id is not a key of
\* the tab map, unless id is 1 and no other tab remained: then the map holds
\* exactly one tab, a new and empty one, under id 1.
C4_ClosedTabAbsentOrFresh ==
  \A tabId \in TabIds : \A s1 \in ClosedBy(tabId) :
    hasTab(s1, tabId) =>
      /\ tabId = 1
      /\ \A k \in 1..Len(tabs) : tabs[k] = 1
      /\ s1.tabs = <<1>>
      /\ Fresh(s1, 1)

\* tab 1 is the only tab and holds a session; confirming its closeTab leaves
\* a new, empty tab 1
C4_Witness ==
  /\ tabs = <<1>>
  /\ prompts[1] > 0
  /\ tabState[1].ptyProcesses[0] # 0
  /\ LET s1 == closeTabAnswered(Cur, 1, "Yes")
     IN  s1.tabs = <<1>> /\ Fresh(s1, 1)

\* C5: after a confirmed closeTab(id) has run to its end: if id was not the
\* active tab the active id is unchanged; if it was, the active id is the
\* lowest id that remains, or 1 when none remains (then tab 1 is new and
\* empty and the next id to allocate is 2); and exactly one tabClosed event
\* is posted, carrying id and that active id.
C5_NewActiveTab ==
  \A tabId \in TabIds : \A s1 \in ClosedBy(tabId) :
    LET remaining == {tabs[k] : k \in 1..Len(tabs)} \ {tabId}
    IN  /\ activeTabId # tabId => s1.activeTabId = activeTabId
        /\ (activeTabId = tabId /\ remaining # {})
             => s1.activeTabId = LeastOf(remaining)
        /\ (activeTabId = tabId /\ remaining = {})
             => /\ s1.activeTabId = 1
                /\ s1.tabs = <<1>>
                /\ Fresh(s1, 1)
                /\ s1.nextTabId = 2
        /\ Posted(s1, "tabClosed")
             = <<Msg("tabClosed", tabId, -1, "", s1.activeTabId)>>

\* tabs 1, 2 and 3 exist, tab 1 is active and holds a session; confirming its
\* closeTab makes tab 2 active
C5_Witness ==
  /\ tabs = <<1, 2, 3>>
  /\ activeTabId = 1
  /\ prompts[1] > 0
  /\ LET s1 == closeTabAnswered(Cur, 1, "Yes")
     IN  s1.tabs = <<2, 3>> /\ s1.activeTabId = 2

\* C6 as stated: once kill was invoked twice on a slot (the first time on
\* the occupied slot), exactly one killed event was posted for the slot in
\* total.
C6_KillTwiceOneKilled ==
  \A tabId \in TabIds, terminalId \in TerminalIds :
    seen.kills[tabId][terminalId] = 2 => seen.killed[tabId][terminalId] = 1

\* C7 as stated: no status=idle event follows the last status=busy event of
\* its (tab, slot) by less than IDLE_TIMEOUT_MS.
C7_IdleAfterTimeout ==
  \A tabId \in TabIds, terminalId \in TerminalIds :
    ~seen.earlyIdle[tabId][terminalId]

\* C8: restart on a slot with no recorded working directory changes no
\* state, posts no event, calls nothing on the process layer and sets no
\* timer (so nothing is spawned then or later).
C8_RestartEmptyNoOp ==
  \A tabId \in TabIds, terminalId \in TerminalIds :
    (hasTab(Cur, tabId) /\ isValidTerminalId(terminalId)
       /\ tabState[tabId].terminalProjects[terminalId] = "none")
      => restartTerminal(Cur, tabId, terminalId) = Cur

\* slot 0 of tab 1 is empty next to an occupied slot, and the restart of
\* slot 0 leaves everything as it is
C8_Witness ==
  /\ view
  /\ hasTab(Cur, 1)
  /\ tabState[1].terminalProjects[0] = "none"
  /\ tabState[1].ptyProcesses[TERMINAL_COUNT - 1] # 0
  /\ handleMessage(Cur, InMsg("restart", 1, 0, "", ""), TRUE) = Cur

\* C9: a process that is killed (or has exited) before its bootstrap command
\* was written never has it written later.
C9_NoBootstrapAfterKill ==
  [][\A p \in Pids :
       (procs[p].status \in {"killed", "exited"} /\ ~seen.bootstrap[p])
         => ~seen.bootstrap'[p]]_vars

\* a kill message has killed the process of a slot whose bootstrap command
\* was not yet written, and no timer is pending any more
C9_Witness ==
  \E p \in Pids :
    /\ procs[p].status = "killed"
    /\ ~seen.bootstrap[p]
    /\ seen.kills[procs[p].tabId][procs[p].terminalId] = 1
    /\ tabState[procs[p].tabId].ptyProcesses[procs[p].terminalId] = 0
    /\ timers = {}

\* the idle timer t was set by the output of a process that was killed, it is
\* the entry of its slot in idleTimers, and a later process is the occupant
\* of the slot
Stale(t) ==
  /\ t.kind = "idle"
  /\ t.inMap
  /\ procs[t.pid].status \in {"killed", "exited"}
  /\ hasTab(Cur, t.tabId)
  /\ tabState[t.tabId].ptyProcesses[t.terminalId] \notin {0, t.pid}

\* C10 as stated: when the idle timer set by the output of a killed session
\* fires after a new session was started in its slot, it leaves the busy
\* flag of the slot as it is and posts no status event.
C10_StaleIdleTimerHarmless ==
  \A t \in timers :
    (Stale(t) /\ Due(t)) =>
      LET s1 == idleTimeout(Dequeue(Cur, t), t)
      IN  /\ s1.tabState[t.tabId].terminalBusy[t.terminalId]
               = tabState[t.tabId].terminalBusy[t.terminalId]
          /\ Posted(s1, "status") = <<>>

\* C11 as stated: when the latest session was requested while the four slots
\* of the active tab were occupied, then once everything the request set off
\* has been delivered (no message is in flight in either direction and no
\* start timer of the webview is pending), the requested session has been
\* started.
C11_AutoTabStartsSession ==
  (seen.autoTab /\ toHost = <<>> /\ toWebview = <<>> /\ webview.starts = <<>>)
    => seen.autoStart

\* C12: createTab inserts a new, empty tab under the current next id as the
\* last key of the tab map, leaves every other tab, every process, timer and
\* pending confirmation as it is, makes the new tab active, advances the next
\* id by one and posts exactly tabCreated with the new id.
C12_CreateTab ==
  (view /\ nextTabId \in TabIds) =>
    LET s1 == handleMessage(Cur, InMsg("createTab", 0, -1, "", ""), TRUE)
    IN  /\ ~hasTab(Cur, nextTabId)
        /\ s1.tabs = Append(tabs, nextTabId)
        /\ Fresh(s1, nextTabId)
        /\ \A tabId \in TabIds \ {nextTabId} :
              s1.tabState[tabId] = tabState[tabId]
        /\ s1.procs = procs /\ s1.timers = timers /\ s1.prompts = prompts
        /\ s1.ptyOps = <<>>
        /\ s1.activeTabId = nextTabId
        /\ s1.nextTabId = nextTabId + 1
        /\ s1.sent = <<Msg("tabCreated", nextTabId, -1, "", 0)>>

\* createTab has made tab 2 from the single-tab state, tab 1 holds a session,
\* and a second createTab makes tab 3
C12_Witness ==
  /\ view
  /\ tabs = <<1, 2>>
  /\ nextTabId = 3
  /\ tabState[1].ptyProcesses[0] # 0
  /\ createTab(Cur).tabs = <<1, 2, 3>>

\* C13: switchTab(id) with id in the tab map sets the active id to id and
\* posts exactly one tabSwitched(id); with id not in the tab map (or absent)
\* it changes nothing and posts nothing.
C13_SwitchTab ==
  view =>
    \A tabId \in 0..MaxTabIdTabs :
      LET s1 == handleMessage(Cur, InMsg("switchTab", tabId, -1, "", ""), TRUE)
      IN  IF hasTab(Cur, tabId)
          THEN /\ s1.activeTabId = tabId
               /\ s1.sent = <<Msg("tabSwitched", tabId, -1, "", 0)>>
          ELSE s1 = Cur

\* tabs 1 and 3 exist and tab 2 was closed, tab 3 is active: switchTab(1)
\* makes tab 1 active, switchTab(2) does nothing
C13_Witness ==
  /\ view
  /\ tabs = <<1, 3>>
  /\ activeTabId = 3
  /\ switchTab(Cur, 1).activeTabId = 1
  /\ switchTab(Cur, 2) = Cur

\* C14: switchTab changes nothing but the active tab id (and posts its
\* event): the tab map, every tab's processes, working directories and busy
\* flags, the timers and the processes are as before, and a running process
\* of any tab still has its output posted under its own (tab, slot).
C14_SwitchTabFrame ==
  view =>
    \A tabId \in TabIdInputs :
      LET s1 == handleMessage(Cur, InMsg("switchTab", tabId, -1, "", ""), TRUE)
      IN  /\ [s1 EXCEPT !.activeTabId = activeTabId, !.sent = <<>>] = Cur
          /\ \A pid \in Pids :
                procs[pid].status = "running" =>
                  Posted(onData(s1, pid, "x"), "output")
                    = <<Msg("output", procs[pid].tabId, procs[pid].terminalId,
                            "x", 0)>>

\* tab 2 is active and holds a running session that is busy, with its idle
\* timer pending; switchTab(1) moves the active id away from it
C14_Witness ==
  /\ view
  /\ activeTabId = 2
  /\ hasTab(Cur, 1) /\ hasTab(Cur, 2)
  /\ \E pid \in Pids :
       /\ procs[pid].status = "running" /\ procs[pid].tabId = 2
       /\ tabState[2].terminalBusy[procs[pid].terminalId] = "true"
       /\ MapEntry(Cur, "idle", 2, procs[pid].terminalId) # {}
  /\ switchTab(Cur, 1).activeTabId = 1

\* C15: a closeTab that asks for confirmation changes nothing while it
\* waits, and when the answer is not 'Yes' it ends without any change: tab
\* map, active id, next id, sessions, timers and processes are as before, and
\* no event is posted and nothing is called on the process layer.
C15_DeclineNoChange ==
  \A tabId \in TabIds :
    /\ (view /\ closeTabPrompts(Cur, tabId)) =>
          [closeTab(Cur, tabId) EXCEPT !.prompts = prompts] = Cur
    /\ prompts[tabId] > 0 =>
          \A answer \in {"No", "undefined"} :
            [closeTabAnswered(Cur, tabId, answer) EXCEPT !.prompts = prompts]
              = Cur

\* the closeTab of tab 1, which holds a live session with a pending timer,
\* waits for its answer; the answer 'No' ends it
C15_Witness ==
  /\ prompts[1] > 0
  /\ hasTab(Cur, 1)
  /\ \E i \in VALID_TERMINAL_IDS :
       /\ tabState[1].ptyProcesses[i] # 0
       /\ procs[tabState[1].ptyProcesses[i]].status = "running"
  /\ timers # {}
  /\ closeTabAnswered(Cur, 1, "No").prompts[1] = 0

\* the inbound messages that name the slot terminalId, one set per command:
\* each with the data its handler reads
SlotMessages(tabId, terminalId) ==
  {InMsg("selectProject", tabId, terminalId, projectPath, resume) :
     projectPath \in Paths, resume \in Resumes}
  \cup {InMsg("input", tabId, terminalId, data, "") : data \in Chunks}
  \cup {InMsg("resolveDrop", tabId, terminalId, data, "") : data \in DropTexts}
  \cup {InMsg(command, tabId, terminalId, "", "") :
          command \in {"resize", "kill", "restart", "pickFiles"}}

\* C16: a selectProject, input, resize, kill, restart, resolveDrop or
\* pickFiles message whose slot id is not one of 0..3 is dropped: whatever
\* its other fields, and whether or not a spawn would succeed, the handler
\* changes no state, calls nothing on the process layer and posts no event.
C16_InvalidSlotDropped ==
  view =>
    \A tabId \in TabIdInputs, spawnOk \in BOOLEAN :
      \A message \in SlotMessages(tabId, TERMINAL_COUNT) :
        handleMessage(Cur, message, spawnOk) = Cur

\* slot 0 of tab 1 holds a session: a kill message for slot 0 kills it, the
\* same message for the slot id 4 does nothing
C16_Witness ==
  /\ view
  /\ tabState[1].ptyProcesses[0] # 0
  /\ handleMessage(Cur, InMsg("kill", 1, 0, "", ""), TRUE) # Cur
  /\ handleMessage(Cur, InMsg("kill", 1, TERMINAL_COUNT, "", ""), TRUE) = Cur

\* C17: a selectProject, input, resize, kill or restart message whose tab id
\* names a tab that is not in the tab map is dropped: for every valid slot
\* and every payload the handler changes no state (of any tab, the active
\* one included), calls nothing on the process layer and posts no event.
C17_AbsentTabDropped ==
  view =>
    \A tabId \in TabIds, terminalId \in VALID_TERMINAL_IDS,
       spawnOk \in BOOLEAN :
      ~hasTab(Cur, tabId) =>
        \A message \in SlotMessages(tabId, terminalId) :
          message.command \in {"selectProject", "input", "resize", "kill",
                                "restart"} =>
            handleMessage(Cur, message, spawnOk) = Cur

\* tab 2 was closed while its slot 0 held a session, the active tab 1 holds
\* one in slot 0: a kill message for (2, 0) does nothing, the same message
\* without a tab id kills the session of the active tab
C17_Witness ==
  /\ view
  /\ ~hasTab(Cur, 2)
  /\ activeTabId = 1
  /\ tabState[1].ptyProcesses[0] # 0
  /\ \E p \in Pids : procs[p].tabId = 2 /\ procs[p].terminalId = 0
                      /\ procs[p].status = "killed"
  /\ handleMessage(Cur, InMsg("kill", 2, 0, "", ""), TRUE) = Cur
  /\ handleMessage(Cur, InMsg("kill", 0, 0, "", ""), TRUE) # Cur
\* the pending timers whose callback addresses the slot (tabId, terminalId)
\* of the tab map: those that look the tab up by its id when they run
SlotTimers(s, tabId, terminalId) ==
  {t \in s.timers : t.tabId = tabId /\ t.terminalId = terminalId /\ t.attached}

\* C18: a start whose spawn fails, on any slot of any tab of the map, posts
\* clear and then error for that (tab, slot) and nothing else; it leaves the
\* slot without process, working directory and busy flag and with no pending
\* timer, whatever the slot held before; and a start that follows on the
\* same slot and whose spawn succeeds puts a running process into it.
C18_SpawnFailure ==
  view =>
    \A k \in 1..Len(tabs), terminalId \in VALID_TERMINAL_IDS,
       projectPath \in Paths, sessionId \in Resumes :
      LET tabId == tabs[k]
          s1 == startTerminal(Cur, tabId, terminalId, projectPath, sessionId,
                              FALSE)
          pid == NextPid(s1)
          s2 == startTerminal(s1, tabId, terminalId, "/a", "", TRUE)
      IN  /\ s1.sent = <<Msg("clear", tabId, terminalId, "", 0),
                         Msg("error", tabId, terminalId,
                             "Failed to start terminal", 0)>>
          /\ s1.tabState[tabId].ptyProcesses[terminalId] = 0
          /\ s1.tabState[tabId].terminalProjects[terminalId] = "none"
          /\ s1.tabState[tabId].terminalBusy[terminalId] = "unset"
          /\ SlotTimers(s1, tabId, terminalId) = {}
          /\ pid \in Pids =>
                /\ s2.tabState[tabId].ptyProcesses[terminalId] = pid
                /\ s2.procs[pid].status = "running"
\* C19: whenever the process layer delivers a chunk of a process, the onData
\* callback posts exactly one output event, carrying the chunk and the
\* (tabId, terminalId) of the session of that process; and for two chunks
\* delivered one after the other, the two output events are posted in the
\* order of the chunks.
C19_OutputForwardedInOrder ==
  \A pid \in Pids :
    procs[pid].status \in {"running", "killed"} =>
      \A d1 \in Chunks, d2 \in Chunks :
        LET p == procs[pid]
            s1 == onData(Cur, pid, d1)
            s2 == onData(s1, pid, d2)
        IN  /\ Posted(s1, "output")
                 = <<Msg("output", p.tabId, p.terminalId, d1, 0)>>
            /\ Posted(s2, "output")
                 = <<Msg("output", p.tabId, p.terminalId, d1, 0),
                     Msg("output", p.tabId, p.terminalId, d2, 0)>>

\* a session runs in a slot of tab 2 while tab 1 is the active tab, and a
\* chunk of its output was forwarded: the slot is busy, its idle timer runs
C19_Witness ==
  \E pid \in Pids :
    /\ procs[pid].status = "running"
    /\ procs[pid].tabId = 2
    /\ activeTabId = 1
    /\ tabState[2].ptyProcesses[procs[pid].terminalId] = pid
    /\ tabState[2].terminalBusy[procs[pid].terminalId] = "true"
    /\ MapEntry(Cur, "idle", 2, procs[pid].terminalId) # {}
\* the state of every slot but (tabId, terminalId): the TabStates with the
\* three entries of the slot blanked, the pending timers that name another
\* slot, and the processes of other slots
OtherSlots(s, tabId, terminalId) ==
  [ tabState |-> [s.tabState EXCEPT
                    ![tabId].ptyProcesses[terminalId] = 0,
                    ![tabId].terminalProjects[terminalId] = "none",
                    ![tabId].terminalBusy[terminalId] = "unset"],
    timers   |-> {t \in s.timers :
                    <<t.tabId, t.terminalId>> # <<tabId, terminalId>>},
    procs    |-> [p \in Pids |->
                    IF <<s.procs[p].tabId, s.procs[p].terminalId>>
                         = <<tabId, terminalId>>
                    THEN NoProc ELSE s.procs[p]],
    tabs     |-> s.tabs,
    activeTabId |-> s.activeTabId ]

\* s1, reached from the current state by an operation on (tabId, terminalId),
\* differs from it in no other slot: process handle, working directory, busy
\* flag and pending timers of every other (tab, slot) and every process of
\* another slot are as they were, and every posted event is tagged with
\* (tabId, terminalId)
Isolated(s1, tabId, terminalId) ==
  /\ OtherSlots(s1, tabId, terminalId) = OtherSlots(Cur, tabId, terminalId)
  /\ \A k \in 1..Len(s1.sent) :
       <<s1.sent[k].tabId, s1.sent[k].terminalId>> = <<tabId, terminalId>>

\* C20: a start (its spawn succeeding or failing), a kill or a restart of a
\* slot, an output chunk or the exit of a process, and the expiry of a
\* bootstrap, idle or restart timer each leave every other (tab, slot) as it
\* was and post no event tagged with another slot.
C20_SlotIsolation ==
  /\ \A tabId \in 1..MaxTabId,
       terminalId \in TerminalIdInputs \cap VALID_TERMINAL_IDS :
       /\ \A projectPath \in Paths, sessionId \in Resumes, spawnOk \in BOOLEAN :
            (spawnOk => NextPid(Cur) \in Pids) =>
              Isolated(startTerminal(Cur, tabId, terminalId, projectPath,
                                     sessionId, spawnOk), tabId, terminalId)
       /\ Isolated(killTerminal(Cur, tabId, terminalId), tabId, terminalId)
       /\ Isolated(restartTerminal(Cur, tabId, terminalId), tabId, terminalId)
  /\ \A pid \in Pids :
       procs[pid].status \in {"running", "killed"} =>
         /\ \A data \in Chunks :
              Isolated(onData(Cur, pid, data), procs[pid].tabId,
                       procs[pid].terminalId)
         /\ Isolated(onExit(Cur, pid), procs[pid].tabId, procs[pid].terminalId)
  /\ \A t \in timers :
       LET s == Dequeue(Cur, t)
       IN  /\ t.kind = "idle" =>
                Isolated(idleTimeout(s, t), t.tabId, t.terminalId)
           /\ t.kind = "cmd" =>
                Isolated(claudeCommandTimeout(s, t), t.tabId, t.terminalId)
           /\ t.kind = "restart" =>
                \A spawnOk \in BOOLEAN :
                  (spawnOk => NextPid(s) \in Pids) =>
                    Isolated(startTerminal(s, t.tabId, t.terminalId, t.arg, "",
                                           spawnOk), t.tabId, t.terminalId)

\* slot 0 of tab 1 was killed while slot 3 of tab 1 holds a running session
\* whose bootstrap timer is pending
C20_Witness ==
  \E p \in Pids, q \in Pids :
    /\ procs[p].status = "killed" /\ procs[p].tabId = 1 /\ procs[p].terminalId = 0
    /\ tabState[1].ptyProcesses[0] = 0
    /\ procs[q].status = "running" /\ tabState[1].ptyProcesses[3] = q
    /\ MapEntry(Cur, "cmd", 1, 3) # {}
\* process pid is no longer the occupant of its slot: it was killed or has
\* not exited yet, its tab is in the map and another process holds the slot
Superseded(pid) ==
  /\ procs[pid].status \in {"running", "killed"}
  /\ hasTab(Cur, procs[pid].tabId)
  /\ tabState[procs[pid].tabId].ptyProcesses[procs[pid].terminalId]
       \notin {0, pid}

\* C21: the exit notification of a process that is no longer the occupant
\* of its slot leaves the new occupant alone: the slot keeps its process
\* handle, working directory, busy flag and timers, the occupant is not
\* killed, and no killed event is posted.
C21_StaleExitHarmless ==
  \A pid \in Pids :
    Superseded(pid) =>
      LET tabId == procs[pid].tabId
          terminalId == procs[pid].terminalId
          occupant == tabState[tabId].ptyProcesses[terminalId]
          s1 == onExit(Cur, pid)
      IN  /\ s1.tabState[tabId].ptyProcesses[terminalId] = occupant
          /\ s1.tabState[tabId].terminalProjects[terminalId]
               = tabState[tabId].terminalProjects[terminalId]
          /\ s1.tabState[tabId].terminalBusy[terminalId]
               = tabState[tabId].terminalBusy[terminalId]
          /\ SlotTimers(s1, tabId, terminalId) = SlotTimers(Cur, tabId, terminalId)
          /\ s1.procs[occupant] = procs[occupant]
          /\ Posted(s1, "killed") = <<>>
\* the slot (tabId, terminalId) of s is Empty: no process handle, no working
\* directory, no busy flag, and no entry in idleTimers or
\* claudeCommandTimeouts
EmptySlot(s, tabId, terminalId) ==
  /\ s.tabState[tabId].ptyProcesses[terminalId] = 0
  /\ s.tabState[tabId].terminalProjects[terminalId] = "none"
  /\ s.tabState[tabId].terminalBusy[terminalId] = "unset"
  /\ MapEntry(s, "idle", tabId, terminalId) = {}
  /\ MapEntry(s, "cmd", tabId, terminalId) = {}

Occupant(pid) ==
  /\ procs[pid].status = "running"
  /\ ptyOf(Cur, procs[pid].tabId, procs[pid].terminalId) = pid

C25_RestartKeepsSlot ==
  view =>
    \A tabId \in 1..MaxTabId, terminalId \in VALID_TERMINAL_IDS :
      (ptyOf(Cur, tabId, terminalId) # 0
         /\ tabState[tabId].terminalProjects[terminalId] \notin {"none", ""}) =>
        LET occupant == ptyOf(Cur, tabId, terminalId)
            s1 == handleMessage(Cur, InMsg("restart", tabId, terminalId, "", ""),
                                TRUE)
            s2 == onExit([s1 EXCEPT !.sent = <<>>], occupant)
        IN  /\ Posted(s1, "restarting")
                 = <<Msg("restarting", tabId, terminalId, "", 0)>>
            /\ Posted(s1, "killed") = <<>>
            /\ Posted(s2, "killed") = <<>>
\* C26: status events follow the session they are posted for.  A busy event
\* for a slot is posted only on output of the session that holds the slot
\* (or held it last, when the slot is empty), so a session without output
\* has no status event; and an idle event for a slot is posted only while
\* the slot's busy flag is set by a busy event of that same session.
C26_StatusPerSession ==
  /\ \A pid \in Pids, data \in Chunks :
       (procs[pid].status \in {"running", "killed"}
          /\ Posted(onData(Cur, pid, data), "status") # <<>>) =>
         ptyOf(Cur, procs[pid].tabId, procs[pid].terminalId) \in {0, pid}
  /\ \A t \in timers :
       (t.kind = "idle"
          /\ Posted(idleTimeout(Dequeue(Cur, t), t), "status") # <<>>) =>
         /\ tabState[t.tabId].terminalBusy[t.terminalId] = "true"
         /\ ptyOf(Cur, t.tabId, t.terminalId) \in {0, t.pid}
\* the status events among the posted ones, as their data
StatusPosted(s) == [k \in 1..Len(Posted(s, "status")) |-> Posted(s, "status")[k].data]

\* C27: an output chunk of a session whose slot is flagged busy posts no
\* status event and sets the slot's idle timer anew; and two chunks of one
\* session never post two busy events with no idle event between them, also
\* when a kill message for the slot is handled between the chunks.
C27_BusyOnlyOnTransition ==
  \A pid \in Pids, d1 \in Chunks, d2 \in Chunks :
    (procs[pid].status \in {"running", "killed"}
       /\ hasTab(Cur, procs[pid].tabId)) =>
      LET tabId == procs[pid].tabId
          terminalId == procs[pid].terminalId
          s1 == onData(Cur, pid, d1)
          s2 == killTerminal(s1, tabId, terminalId)
          s3 == onData(s2, pid, d2)
      IN  /\ tabState[tabId].terminalBusy[terminalId] = "true" =>
                /\ StatusPosted(s1) = <<>>
                /\ \E t \in MapEntry(s1, "idle", tabId, terminalId) :
                     t.left = IDLE_TIMEOUT_MS /\ t.pid = pid
                /\ s1.timers \cap MapEntry(Cur, "idle", tabId, terminalId)
                     \subseteq MapEntry(s1, "idle", tabId, terminalId)
          /\ StatusPosted(s3) # <<"busy", "busy">>
C29_BusyLeadsToIdle ==
  (tabState[1].terminalBusy[0] = "true")
    ~> (tabState[1].terminalBusy[0] \in {"false", "unset"})

\* the session of slot 0 of tab 1 runs, and the idle callback has run after
\* its output: the flag is false and no idle timer is pending
C29_Witness ==
  /\ ptyOf(Cur, 1, 0) # 0
  /\ procs[ptyOf(Cur, 1, 0)].status = "running"
  /\ tabState[1].terminalBusy[0] = "false"
  /\ \A t \in timers : t.kind # "idle"
\* the calls of IPty.write among the process-layer calls of s
Writes(s) == SelectSeq(s.ptyOps, LAMBDA o : o.op = "write")

\* C30: on the clock.  A start whose spawn succeeds writes nothing and sets
\* one bootstrap timer of SHELL_INIT_DELAY_MS for the new process, carrying
\* the session id it was given.  A pending bootstrap timer is the only one
\* of its process, whose command was not written yet; its callback writes
\* nothing or one command, to the process of its spawn, which then runs and
\* is the occupant of its slot, with --resume and the session id exactly
\* when the session id is not empty.  And the command of a process is
\* written only in a step that takes a due bootstrap timer of that process
\* off the queue.
C30_BootstrapOnce ==
  /\ [](/\ \A tabId \in 1..MaxTabId, terminalId \in VALID_TERMINAL_IDS,
              sessionId \in Resumes :
              (hasTab(Cur, tabId) /\ NextPid(Cur) \in Pids) =>
                LET new == NextPid(Cur)
                    s1 == startTerminal(Cur, tabId, terminalId, "/a", sessionId,
                                        TRUE)
                IN  /\ Writes(s1) = <<>>
                    /\ {u \in s1.timers : u.kind = "cmd" /\ u.pid = new}
                         = {Timer("cmd", SHELL_INIT_DELAY_MS, tabId, terminalId,
                                  new, sessionId)}
        /\ \A t \in timers :
              t.kind = "cmd" =>
                LET s1 == claudeCommandTimeout(Dequeue(Cur, t), t)
                    cmd == IF t.arg = ""
                           THEN "claude --dangerously-skip-permissions\r"
                           ELSE "claude --dangerously-skip-permissions --resume "
                                  \o t.arg \o "\r"
                IN  /\ {u \in timers : u.kind = "cmd" /\ u.pid = t.pid} = {t}
                    /\ ~seen.bootstrap[t.pid]
                    /\ Writes(s1) \in {<<>>, <<PtyOp("write", t.pid, cmd)>>}
                    /\ Writes(s1) # <<>> =>
                          /\ t.attached
                          /\ ptyOf(Cur, t.tabId, t.terminalId) = t.pid
                          /\ procs[t.pid].status = "running")
  /\ [][\A pid \in Pids :
          (~seen.bootstrap[pid] /\ seen.bootstrap'[pid]) =>
            \E t \in timers \ timers' :
              t.kind = "cmd" /\ t.pid = pid /\ t.left = 0]_vars

\* the bootstrap timer of a running session that was started with a session
\* id is due, and its callback writes the command
C30_Witness ==
  \E t \in timers :
    /\ t.kind = "cmd" /\ t.left = 0 /\ t.arg = "s1"
    /\ procs[t.pid].status = "running"
    /\ Writes(claudeCommandTimeout(Dequeue(Cur, t), t)) # <<>>
\* C31: a closeTab that proceeds signals every running process of the tab,
\* takes every entry of the tab's idleTimers and claudeCommandTimeouts off
\* the timer queue, and removes the TabState from the map.
C31_CloseTabCleansAll ==
  \A tabId \in 1..MaxTabId :
    hasTab(Cur, tabId) =>
      LET s1 == closeTabProceed(Cur, tabId)
          \* the pending idle and bootstrap timers of s that name the tab
          TabTimers(s) ==
            {t \in s.timers : t.tabId = tabId /\ t.kind \in {"idle", "cmd"}}
          \* those that are entries of the tab's two timer maps
          TabMapTimers(s) == {t \in TabTimers(s) : t.inMap /\ t.attached}
      IN  /\ \A pid \in Pids :
               (procs[pid].tabId = tabId /\ procs[pid].status = "running") =>
                 s1.procs[pid].status = "killed"
          /\ Cardinality(TabTimers(s1))
               = Cardinality(TabTimers(Cur)) - Cardinality(TabMapTimers(Cur))
          /\ TabMapTimers(s1) = {}

\* C32: when refresh returns, every process that was running has been
\* signalled, no idle or bootstrap timer is pending, the tab map holds
\* exactly one tab, an empty one under id 1, the active id is 1, the next id
\* is 2, and (with a view) the handler has posted refresh then projects.
C32_RefreshResetsAll ==
  LET s1 == refresh(Cur)
  IN  /\ \A pid \in Pids :
           procs[pid].status = "running" => s1.procs[pid].status = "killed"
      /\ {t \in s1.timers : t.kind \in {"idle", "cmd"}} = {}
      /\ s1.tabs = <<1>>
      /\ s1.tabState[1] = createTabState
      /\ s1.activeTabId = 1
      /\ s1.nextTabId = 2
      /\ view => s1.sent = <<Msg("refresh", 0, -1, "", 0),
                             Msg("projects", 0, -1, "", 0)>>

\* C33: the observer's count of the killed events of a slot, which starts
\* again at every spawn into the slot, never exceeds one.
C33_OneKilledPerSession ==
  \A tabId \in TabIds, terminalId \in TerminalIds :
    seen.killed[tabId][terminalId] <= 1

\* C34: in every tab of the map the slots with a working directory are the
\* slots with a process handle, and a slot with a busy flag, an idle timer
\* or a bootstrap timer has a process handle.
C34_NoResidualState ==
  \A k \in 1..Len(tabs) :
    LET \* the slots of the tab that have an entry in the named map
        SlotsWith(field) ==
          {i \in TerminalIds :
             tabState[tabs[k]][field][i] # createTabState[field][i]}
        \* the slots of the tab that have an entry in idleTimers (kind
        \* "idle") or in claudeCommandTimeouts (kind "cmd")
        SlotsWithTimer(kind) ==
          {i \in TerminalIds : MapEntry(Cur, kind, tabs[k], i) # {}}
        live == SlotsWith("ptyProcesses")
    IN  /\ SlotsWith("terminalProjects") = live
        /\ SlotsWith("terminalBusy") \subseteq live
        /\ SlotsWithTimer("idle") \subseteq live
        /\ SlotsWithTimer("cmd") \subseteq live

\* C35: the next tab id is above every tab id of the map, createTab adds a
\* key to the map instead of replacing one, and this is still so after a
\* pending closeTab confirmation resolves with 'Yes'.
C35_NextIdAboveTabs ==
  LET \* the id createTab would allocate in s is above every key of the map
      NextIdAbove(s) == \A k \in 1..Len(s.tabs) : s.tabs[k] < s.nextTabId
  IN  /\ NextIdAbove(Cur)
      /\ Len(createTab(Cur).tabs) = Len(tabs) + 1
      /\ \A tabId \in TabIds :
           prompts[tabId] > 0 =>
             NextIdAbove(closeTabAnswered(Cur, tabId, "Yes"))

\* the confirmation of closeTab(1) is pending on the only tab after tab 2
\* was allocated and closed: confirming closes the last tab and resets the
\* allocator from 3 to 2
C35_Witness ==
  /\ prompts[1] > 0
  /\ tabs = <<1>>
  /\ activeTabId = 1
  /\ nextTabId = 3
  /\ closeTabAnswered(Cur, 1, "Yes").nextTabId = 2

\* C36: every running process is the recorded occupant of a slot of a tab of
\* the map, and this is still so when a closeTab proceeds and when refresh
\* returns.
C36_NoOrphans ==
  LET \* every running process of s is the occupant of its slot, in a tab
      \* of the map
      NoOrphans(s) ==
        \A pid \in Pids :
          s.procs[pid].status = "running" =>
            /\ hasTab(s, s.procs[pid].tabId)
            /\ ptyOf(s, s.procs[pid].tabId, s.procs[pid].terminalId) = pid
  IN  /\ NoOrphans(Cur)
      /\ NoOrphans(refresh(Cur))
      /\ \A tabId \in 1..MaxTabId :
           hasTab(Cur, tabId) => NoOrphans(closeTabProceed(Cur, tabId))

\* two tabs hold a running session each while the confirmation of
\* closeTab(1) is pending; proceeding signals the session of tab 1
C36_Witness ==
  /\ prompts[1] > 0
  /\ \E p, q \in Pids :
       /\ procs[p].status = "running" /\ procs[p].tabId = 1
       /\ procs[q].status = "running" /\ procs[q].tabId = 2
       /\ closeTabProceed(Cur, 1).procs[p].status = "killed"
       /\ closeTabProceed(Cur, 1).procs[q].status = "running"

\* C37: when refresh or dispose returns, no process is running and no
\* pending restart continuation spawns one when it fires.
C37_QuietAfterRefresh ==
  LET \* the spawn calls s has made on the process layer
      Spawns(s) == SelectSeq(s.ptyOps, LAMBDA o : o.op = "spawn")
      \* no process runs in s, and no timer pending in s spawns one
      QuietUntilStart(s) ==
        /\ \A pid \in Pids : s.procs[pid].status # "running"
        /\ \A t \in s.timers :
             t.kind = "restart" =>
               Spawns(startTerminal(Dequeue(s, t), t.tabId, t.terminalId,
                                    t.arg, "", TRUE)) = <<>>
  IN  /\ QuietUntilStart(refresh(Cur))
      /\ QuietUntilStart(disposeAllResources(Cur))

(***************************************************************************)
(* SpecPrompts: closeTab can be requested again while an earlier closeTab  *)
(* of the same tab waits at its confirmation prompt                        *)
(***************************************************************************)
CloseTabTwice ==
  /\ view
  /\ \E tabId \in 1..MaxTabId :
       /\ closeTabPrompts(Cur, tabId) => prompts[tabId] < MaxPromptsTwice
       /\ Commit(handleMessage(Cur, InMsg("closeTab", tabId, -1, "", ""), TRUE))

NextPrompts ==
  \/ ResolveWebviewView
  \/ SelectProjectTimed
  \/ CreateTab
  \/ CloseTabTwice
  \/ CloseTabAnswer
  \/ PtyExit
  \/ ClaudeCommandTimerFires

SpecPrompts == Init /\ [][NextPrompts]_vars

\* C38: when two confirmations of closeTab(tabId) are pending and both are
\* answered 'Yes', one tabClosed event is posted in all, and the second
\* answer changes no tab, session, timer or process state.
C38_ClosedOnce ==
  view =>
    \A tabId \in 1..MaxTabId :
      prompts[tabId] >= 2 =>
        LET s1 == closeTabAnswered(Cur, tabId, "Yes")
            s2 == closeTabAnswered(s1, tabId, "Yes")
        IN  /\ Len(Posted(s2, "tabClosed")) = 1
            /\ [s2 EXCEPT !.prompts = s1.prompts, !.sent = s1.sent] = s1

\* C39, for the idle timer: when an idle timer whose TabState has left the
\* tab map (it was set for a session of a tab that has since been closed)
\* fires, no tab's session state changes and no event is posted.
C39_ClosedTabTimerInert ==
  \A t \in timers :
    (t.kind = "idle" /\ ~t.inMap) =>
      LET s1 == idleTimeout(Dequeue(Cur, t), t)
      IN  /\ s1.tabState = tabState
          /\ s1.sent = <<>>
====
